---- MODULE Spec2Model ----
(***************************************************************************)
(* State-machine model of the NGL representation -> buffer pipeline:       *)
(*   - DistanceRepresentation / LabelRepresentation                        *)
(*       (src/src/representation/label-representation.js)                  *)
(*   - RocketRepresentation                                                *)
(*       (src/src/representation/rocket-representation.js)                 *)
(*   - ViewerControls              (src/unnamed/part_000)                  *)
(*   - HyperballStickImpostorBuffer (src/unnamed/part_001)                 *)
(*                                                                         *)
(* Numbers.  Atom coordinates are even integers, so a midpoint             *)
(* ( a + b ) / 2 is an exact integer (and exact in a Float32Array).  A     *)
(* label text is the string Number.toFixed( 2 ) produces; it is held as    *)
(* the integer number of hundredths it spells ("2.83" is 283).             *)
(* A typed array or a JavaScript array is a sequence; JavaScript's index   *)
(* k is the sequence's index k + 1.                                        *)
(***************************************************************************)
EXTENDS Integers, Sequences, FiniteSets, TLC

VARIABLES
    rep,            \* which object this run constructs and exercises
    frame,          \* the structure's current coordinate frame
    viewAtoms,      \* atom indices of the structure view (sview)
    atomPair,       \* DistanceRepresentation.atomPair
    distanceData,   \* <<>> or <<r>>: what getDistanceData last returned
    dataList,       \* Representation.dataList
    textBuffer,     \* <<>> or <<b>>: this.textBuffer / the label's bufferList[ 0 ]
    cylinderBuffer, \* <<>> or <<b>>: this.cylinderBuffer / the rocket's bufferList[ 0 ]
    what,           \* <<>> or <<S>>: change-set of the last updateData call
    textData,       \* channels the last updateData handed to the text buffer
    cylinderData,   \* channels the last updateData handed to the cylinder buffer
    resolved,       \* whether the last updateData called getDistanceData
    op,             \* the operation that produced this state
    polymers,       \* the structure's polymers, in eachPolymer order
    colorScheme,    \* RocketRepresentation: the active colour scheme
    radius,         \* RocketRepresentation.radius
    scale,          \* RocketRepresentation.scale
    rocketData,     \* <<>> or <<d>>: what RocketRepresentation.createData returned
    rotationQuaternion, \* viewer.rotationGroup.quaternion, components doubled
    rotationMatrix, \* viewer.rotationGroup.matrix, its rotation part
    translation,    \* viewer.translationGroup.position
    cameraZ,        \* viewer.camera.position.z
    renderRequested, \* the viewer's pending render request
    callArg,        \* <<>> or <<a>>: the argument of the last ViewerControls call
    orientation,    \* <<>> or <<m>>: what getOrientation last returned
    hbuf,           \* <<>> or <<b>>: a HyperballStickImpostorBuffer
    hargs,          \* <<>> or <<a>>: the arguments hbuf was constructed with
    stored,         \* DistanceRepresentation: visible, labelVisible, labelSize, labelColor
    visibility,     \* the visible flag of each buffer of the bufferList
    lastParams,     \* <<>> or <<a>>: the arguments of the last setVisibility / setParameters call
    baseCall,       \* <<>> or <<c>>: what and rebuild as handed to the base setParameters
    requests        \* render requests issued during the last call

distanceVars == << frame, viewAtoms, atomPair, distanceData, dataList,
                   textBuffer >>

rocketVars == << polymers, colorScheme, radius, scale, rocketData >>

controlVars == << rotationQuaternion, rotationMatrix, translation, cameraZ,
                  renderRequested, callArg, orientation >>

bufferVars == << hbuf, hargs >>

parameterVars == << stored, visibility, lastParams, baseCall, requests >>

objectVars == << controlVars, bufferVars, parameterVars >>

vars == << rep, frame, viewAtoms, atomPair, distanceData, dataList, textBuffer,
           cylinderBuffer, what, textData, cylinderData, resolved, op,
           polymers, colorScheme, radius, scale, rocketData,
           rotationQuaternion, rotationMatrix, translation, cameraZ,
           renderRequested, callArg, orientation, hbuf, hargs, stored,
           visibility, lastParams, baseCall, requests >>

----------------------------------------------------------------------------
(* Bounds of the model *)

NAtoms == 2
MaxFrame == 2
MaxPairs == 3
MaxWhat == 2
MaxPolymers == 3
MaxSegs == 2
MaxParam == 2
MaxZ == 2
MaxShift == 2
MaxCount == 2
MaxValue == 2

----------------------------------------------------------------------------
(* Array helpers *)

\* new Float32Array( n ): n zeros
Zeros(n) == [k \in 1..n |-> 0]

\* uniformArray( n, a )
uniformArray(n, a) == [k \in 1..n |-> a]

\* uniformArray3( n, a, b, c )
uniformArray3(n, a, b, c) ==
    [k \in 1..(3 * n) |-> CASE k % 3 = 1 -> a [] k % 3 = 2 -> b [] OTHER -> c]

\* TypedArray.prototype.set( src, offset ): overwrites offset .. offset + src.length - 1
SetAt(arr, src, offset) ==
    [k \in 1..Len(arr) |->
        IF k > offset /\ k <= offset + Len(src) THEN src[k - offset] ELSE arr[k]]

\* the elements of a set of integers in ascending order
RECURSIVE Ascending(_)
Ascending(S) ==
    IF S = {} THEN << >>
    ELSE LET m == CHOOSE x \in S : \A y \in S : x <= y
         IN << m >> \o Ascending(S \ {m})

----------------------------------------------------------------------------
(* The structure view *)

Frames == 1..MaxFrame
Atoms == 1..NAtoms

\* coordinates of atom i in coordinate frame f (AtomProxy.x, .y, .z)
AtomXYZ(f, i) == << 2 * (i - 1), 2 * (i - 1) * f, 2 * (i - 1) * (f - 1) >>

\* a selection expression is the set of atoms of the structure it matches
Seles == { {}, Atoms, {NAtoms} }

\* the views a representation may be built on: empty, everything, one atom
Views == { {}, Atoms, {NAtoms} }

\* sview.getAtomIndices( sele ): the matching atoms of the view, in view order
getAtomIndices(sview, sele) == Ascending(sview \cap sele)

\* a slot of "new Array( n )" that was never assigned
Hole == -1

\* the largest r in lo .. hi with r * r <= n (lo * lo <= n is given)
FloorRoot(n, lo, hi) ==
    CHOOSE r \in lo..hi : r * r <= n /\ (r = hi \/ (r + 1) * (r + 1) > n)

\* the square of the distance of two points
DistanceSquared(p, q) ==
    (p[1] - q[1]) * (p[1] - q[1]) + (p[2] - q[2]) * (p[2] - q[2])
    + (p[3] - q[3]) * (p[3] - q[3])

\* one more decimal digit of a square root: the floor root of n, given the
\* floor root r of n \div 100
RootDigit(n, r) == FloorRoot(n, 10 * r, 10 * r + 9)

\* toFixed( 2 ) of sqrt( d2 ), in hundredths: r2 = floor( 100 * sqrt( d2 ) )
\* rounded to the nearest hundredth
RoundHundredths(d2, r2) ==
    IF (2 * r2 + 1) * (2 * r2 + 1) > 40000 * d2 THEN r2 ELSE r2 + 1

\* sqrt( d2 ).toFixed( 2 ), in hundredths, found digit by digit
RootToFixed2(d2) ==
    RoundHundredths(d2,
        RootDigit(10000 * d2, RootDigit(100 * d2, FloorRoot(d2, 0, d2))))

\* ap1.distanceTo( ap2 ).toFixed( 2 ), in hundredths
DistanceToFixed2(p, q) == RootToFixed2(DistanceSquared(p, q))

\* BondStore.addBond( ap1, ap2, bondOrder ): appends one bond, the lower
\* atom index first
addBond(bondStore, a1, a2, bondOrder) ==
    Append(bondStore,
           [atomIndex1 |-> IF a1 < a2 THEN a1 ELSE a2,
            atomIndex2 |-> IF a1 < a2 THEN a2 ELSE a1,
            bondOrder |-> bondOrder])

----------------------------------------------------------------------------
(* DistanceRepresentation.getDistanceData *)

\* the writes for a resolved pair with representatives a1 and a2 into slot i
DistancePairWrite(f, a1, a2, i, acc) ==
    LET p == AtomXYZ(f, a1)
        q == AtomXYZ(f, a2)
    IN [j |-> acc.j,
        text |-> [acc.text EXCEPT ![i + 1] = DistanceToFixed2(p, q)],
        position |-> [acc.position EXCEPT
                         ![i * 3 + 1] = (p[1] + q[1]) \div 2,
                         ![i * 3 + 2] = (p[2] + q[2]) \div 2,
                         ![i * 3 + 3] = (p[3] + q[3]) \div 2],
        bondStore |-> addBond(acc.bondStore, a1, a2, 1)]

\* the callback once both selections are resolved: a pair with an empty side
\* is counted in j and dropped, any other is written to slot i
DistancePairResolved(f, atomIndices1, atomIndices2, i, acc) ==
    IF Len(atomIndices1) # 0 /\ Len(atomIndices2) # 0
    THEN DistancePairWrite(f, atomIndices1[1], atomIndices2[1], i, acc)
    ELSE [acc EXCEPT !.j = acc.j + 1]

\* DistancePairStep without "i -= j": a resolved pair is written to the slot
\* of its input index
DistancePairStepNoShift(sview, f, pair, i0, acc) ==
    DistancePairResolved(f, getAtomIndices(sview, pair[1]),
                         getAtomIndices(sview, pair[2]), i0, acc)

\* the body of atomPair.forEach for the pair at JavaScript index i0;
\* acc = [ j, text, position, bondStore ]
DistancePairStep(sview, f, pair, i0, acc) ==
    DistancePairResolved(f, getAtomIndices(sview, pair[1]),
                         getAtomIndices(sview, pair[2]), i0 - acc.j, acc)

RECURSIVE DistanceForEach(_, _, _, _, _)
DistanceForEach(sview, f, pairs, i0, acc) ==
    IF i0 >= Len(pairs) THEN acc
    ELSE DistanceForEach(sview, f, pairs, i0 + 1,
                         DistancePairStep(sview, f, pairs[i0 + 1], i0, acc))

\* what getDistanceData returns after the loop over n pairs ended in acc:
\* position is cut to the resolved pairs, text is returned as allocated
DistanceReturn(n, acc) ==
    [text |-> acc.text,
     position |-> IF acc.j > 0
                  THEN SubSeq(acc.position, 1, (n - acc.j) * 3)
                  ELSE acc.position,
     bondSet |-> [k \in 1..Len(acc.bondStore) |-> TRUE],
     bondStore |-> acc.bondStore]

getDistanceData(sview, f, pairs) ==
    DistanceReturn(Len(pairs),
        DistanceForEach(sview, f, pairs, 0,
            [j |-> 0,
             text |-> [k \in 1..Len(pairs) |-> Hole],
             position |-> Zeros(Len(pairs) * 3),
             bondStore |-> << >>]))

----------------------------------------------------------------------------
(* Collaborators of the representations: the structure view and the buffers *)

\* DistanceRepresentation.defaultSize, in hundredths
defaultSize == 15

\* init: this.labelSize = p.labelSize || 2.0
labelSize == 2

\* init: this.labelColor = p.labelColor || 0xFFFFFF, as THREE.Color's
\* components ( r, g, b ), each in 0 .. 255
labelColor == << 255, 255, 255 >>

\* the colour the active colour scheme gives atom i, as three components
AtomColor(i) == << i, i, i >>

\* the three coordinates of every listed atom, one after the other
RECURSIVE FlatXYZ(_, _)
FlatXYZ(f, ids) ==
    IF ids = << >> THEN << >>
    ELSE AtomXYZ(f, Head(ids)) \o FlatXYZ(f, Tail(ids))

RECURSIVE FlatColor(_)
FlatColor(ids) ==
    IF ids = << >> THEN << >>
    ELSE AtomColor(Head(ids)) \o FlatColor(Tail(ids))

\* calculateCenterArray( position1, position2 )
calculateCenterArray(position1, position2) ==
    [k \in 1..Len(position1) |-> (position1[k] + position2[k]) \div 2]

\* the bond data of the bonds joining atoms i1[ k ] and i2[ k ]
BondDataOf(f, i1, i2) ==
    [position1 |-> FlatXYZ(f, i1),
     position2 |-> FlatXYZ(f, i2),
     color1 |-> FlatColor(i1),
     color2 |-> FlatColor(i2),
     radius |-> uniformArray(Len(i1), defaultSize),
     pickingColor1 |-> FlatColor(i1),
     pickingColor2 |-> FlatColor(i2)]

\* the bond data of a list of bonds
BondDataOn(f, on) ==
    BondDataOf(f, [k \in 1..Len(on) |-> on[k].atomIndex1],
               [k \in 1..Len(on) |-> on[k].atomIndex2])

\* sview.getBondData( { bondSet, bondStore, ... } ): one entry per bond of the
\* bond table whose bit is set
getBondData(f, bondSet, bondStore) ==
    BondDataOn(f,
        SelectSeq([k \in 1..Len(bondStore) |->
                      [bondStore[k] EXCEPT !.bondOrder =
                          IF bondSet[k] THEN 1 ELSE 0]],
                  LAMBDA b : b.bondOrder = 1))

\* sview.getAtomData( ... ): one entry per atom of the view
getAtomData(sview, f) ==
    LET ids == Ascending(sview)
    IN [position |-> FlatXYZ(f, ids),
        color |-> FlatColor(ids),
        radius |-> [k \in 1..Len(ids) |-> 10 * ids[k]]]

\* new TextBuffer( position, size, color, text, params )
TextBuffer(position, size, color, text) ==
    [position |-> position, size |-> size, color |-> color, text |-> text]

\* new CylinderBuffer( from, to, color, color2, radius, pickingColor,
\* pickingColor2, params )
CylinderBuffer(from, to, color, color2, size, pickingColor, pickingColor2) ==
    [position |-> calculateCenterArray(from, to),
     position1 |-> from, position2 |-> to,
     color |-> color, color2 |-> color2, radius |-> size,
     pickingColor |-> pickingColor, pickingColor2 |-> pickingColor2]

\* Buffer.setAttributes( data ): writes the channels data names, no other
setAttributes(buffer, data) ==
    [c \in DOMAIN buffer |-> IF c \in DOMAIN data THEN data[c] ELSE buffer[c]]

\* a record holding the channels of "all" that "keys" names
Pick(all, keys) == [c \in keys |-> all[c]]

\* the names a change-set may hold
Channels == { "position", "color", "radius", "scale", "labelSize", "labelColor" }

WhatSets == { S \in SUBSET Channels : Cardinality(S) <= MaxWhat }

----------------------------------------------------------------------------
(* DistanceRepresentation.create and .updateData *)

\* the buffers create constructs from the distance data dd and its bond
\* data, for a pair list of length n
DistanceCreateBuffers(n, dd, bondData) ==
    [made |-> TRUE,
     textBuffer |->
         TextBuffer(dd.position,
                    uniformArray(n, labelSize),
                    uniformArray3(n, labelColor[1], labelColor[2],
                                  labelColor[3]),
                    dd.text),
     cylinderBuffer |->
         CylinderBuffer(bondData.position1, bondData.position2,
                        bondData.color1, bondData.color2,
                        bondData.radius, bondData.pickingColor1,
                        bondData.pickingColor2),
     data |-> [bondSet |-> dd.bondSet,
               bondStore |-> dd.bondStore,
               position |-> dd.position]]

\* create past its early returns, with the distance data dd
DistanceCreateFrom(f, n, dd) ==
    DistanceCreateBuffers(n, dd, getBondData(f, dd.bondSet, dd.bondStore))

\* the state create leaves behind: [ made, textBuffer, cylinderBuffer, data ]
DistanceCreate(sview, f, pairs) ==
    IF sview = {} \/ Len(pairs) = 0
    THEN [made |-> FALSE]
    ELSE DistanceCreateFrom(f, Len(pairs), getDistanceData(sview, f, pairs))

\* DistanceResolves re-resolving on a colour change too
DistanceResolvesOnColor(S) == "position" \in S \/ "color" \in S

\* whether updateData( S, data ) calls getDistanceData again
DistanceResolves(S) == "position" \in S

\* the channels updateData( S, data ) puts into textData
DistanceTextKeys(S) ==
    (IF "position" \in S THEN {"position"} ELSE {})
    \cup (IF "labelSize" \in S THEN {"size"} ELSE {})
    \cup (IF "labelColor" \in S THEN {"color"} ELSE {})

\* the channels updateData( S, data ) puts into cylinderData
DistanceCylinderKeys(S) ==
    (IF "position" \in S THEN {"position", "position1", "position2"} ELSE {})
    \cup (IF "color" \in S THEN {"color", "color2"} ELSE {})
    \cup (IF "radius" \in S \/ "scale" \in S THEN {"radius"} ELSE {})

\* data after the first block of updateData: re-resolved from dd, or as it was
DistanceData(S, data, dd) ==
    IF DistanceResolves(S)
    THEN [bondSet |-> dd.bondSet,
          bondStore |-> dd.bondStore,
          position |-> dd.position]
    ELSE data

\* the values updateData has for the channels of the text buffer
DistanceTextAll(n, data) ==
    [position |-> data.position,
     size |-> uniformArray(n, labelSize),
     color |-> uniformArray3(n, labelColor[1], labelColor[2], labelColor[3])]

\* the values updateData has for the channels of the cylinder buffer
DistanceCylinderAll(bondData) ==
    [position |-> calculateCenterArray(bondData.position1,
                                       bondData.position2),
     position1 |-> bondData.position1,
     position2 |-> bondData.position2,
     color |-> bondData.color1,
     color2 |-> bondData.color2,
     radius |-> bondData.radius]

\* the two setAttributes calls that end updateData
DistancePatch(data, td, cd, tb, cb) ==
    [data |-> data,
     textData |-> td,
     cylinderData |-> cd,
     textBuffer |-> setAttributes(tb, td),
     cylinderBuffer |-> setAttributes(cb, cd)]

\* updateData from "var bondData = this.getBondData( ... )" on
DistanceUpdateFrom(S, data, bondData, n, tb, cb) ==
    DistancePatch(data,
                  Pick(DistanceTextAll(n, data), DistanceTextKeys(S)),
                  Pick(DistanceCylinderAll(bondData), DistanceCylinderKeys(S)),
                  tb, cb)

\* updateData after its first block left data
DistanceUpdateResolved(S, data, f, n, tb, cb) ==
    DistanceUpdateFrom(S, data, getBondData(f, data.bondSet, data.bondStore),
                       n, tb, cb)

\* the state updateData( S, data ) leaves behind
DistanceUpdateData(S, data, sview, f, pairs, tb, cb) ==
    DistanceUpdateResolved(S,
        DistanceData(S, data, getDistanceData(sview, f, pairs)),
        f, Len(pairs), tb, cb)

----------------------------------------------------------------------------
(* Actions on a DistanceRepresentation *)

\* the structure's coordinates change (a trajectory frame is loaded)
StructureMoves ==
    /\ rep \in {"distance", "label"}
    /\ \E f \in Frames \ {frame} : frame' = f
    /\ op' = "frame"
    /\ what' = << >> /\ textData' = {} /\ cylinderData' = {}
    /\ resolved' = FALSE
    /\ UNCHANGED << rep, viewAtoms, atomPair, distanceData, dataList,
                    textBuffer, cylinderBuffer >>
    /\ UNCHANGED rocketVars
    /\ UNCHANGED objectVars

\* build: the data list is emptied and create runs
DistanceBuild ==
    /\ rep = "distance"
    /\ \E r \in { DistanceCreate(viewAtoms, frame, atomPair) } :
          IF r.made
          THEN /\ textBuffer' = << r.textBuffer >>
               /\ cylinderBuffer' = << r.cylinderBuffer >>
               /\ dataList' = << r.data >>
          ELSE /\ dataList' = << >>
               /\ UNCHANGED << textBuffer, cylinderBuffer >>
    /\ op' = "build"
    /\ what' = << >> /\ textData' = {} /\ cylinderData' = {}
    /\ resolved' = FALSE
    /\ UNCHANGED << rep, frame, viewAtoms, atomPair, distanceData >>
    /\ UNCHANGED rocketVars
    /\ UNCHANGED objectVars

\* update( S ): updateData( S, data ) for every entry of the data list
DistanceUpdate ==
    /\ rep = "distance"
    /\ dataList # << >>
    /\ \E S \in WhatSets :
         \E r \in { DistanceUpdateData(S, dataList[1], viewAtoms, frame,
                                        atomPair, textBuffer[1],
                                        cylinderBuffer[1]) } :
            /\ dataList' = << r.data >>
            /\ textBuffer' = << r.textBuffer >>
            /\ cylinderBuffer' = << r.cylinderBuffer >>
            /\ textData' = DOMAIN r.textData
            /\ cylinderData' = DOMAIN r.cylinderData
            /\ resolved' = DistanceResolves(S)
            /\ what' = << S >>
    /\ op' = "updateData"
    /\ UNCHANGED << rep, frame, viewAtoms, atomPair, distanceData >>
    /\ UNCHANGED rocketVars
    /\ UNCHANGED objectVars

\* getDistanceData applied to the representation's view and pair list
GetDistanceData ==
    /\ rep = "getDistanceData"
    /\ distanceData' = << getDistanceData(viewAtoms, frame, atomPair) >>
    /\ op' = "getDistanceData"
    /\ UNCHANGED << rep, frame, viewAtoms, atomPair, dataList, textBuffer,
                    cylinderBuffer, what, textData, cylinderData, resolved >>
    /\ UNCHANGED rocketVars
    /\ UNCHANGED objectVars

\* every pair list of at most n pairs
RECURSIVE PairLists(_)
PairLists(n) ==
    IF n = 0 THEN { << >> }
    ELSE LET shorter == PairLists(n - 1)
         IN shorter \cup { Append(l, << a, b >>) :
                              l \in { x \in shorter : Len(x) = n - 1 },
                              a \in Seles, b \in Seles }

\* 0xFFFFFF, the default of labelColor
White == 16777215

\* the parameters init stores when none are given: the representation and
\* its labels are shown, labelSize 2.0, labelColor 0xFFFFFF
DefaultParameters ==
    [visible |-> TRUE, labelVisible |-> TRUE, labelSize |-> labelSize,
     labelColor |-> White]

\* no setVisibility or setParameters call in this run
NoParameters ==
    /\ stored = DefaultParameters
    /\ visibility = << >>
    /\ lastParams = << >> /\ baseCall = << >>
    /\ requests = 0

\* nothing built, nothing called
Unbuilt ==
    /\ distanceData = << >> /\ dataList = << >>
    /\ textBuffer = << >> /\ cylinderBuffer = << >>
    /\ what = << >> /\ textData = {} /\ cylinderData = {}
    /\ resolved = FALSE /\ op = "new"
    /\ rocketData = << >>
    /\ NoParameters

\* no viewer controls in this run
NoControls ==
    /\ rotationQuaternion = << 0, 0, 0, 2 >>
    /\ rotationMatrix = << << 1, 0, 0 >>, << 0, 1, 0 >>, << 0, 0, 1 >> >>
    /\ translation = << 0, 0, 0 >>
    /\ cameraZ = 0
    /\ renderRequested = FALSE
    /\ callArg = << >> /\ orientation = << >>

\* no impostor buffer in this run
NoBuffer == hbuf = << >> /\ hargs = << >>

\* RocketRepresentation.init with no parameters given
RocketDefaults == colorScheme = 1 /\ radius = 1 /\ scale = 1

\* no structure loaded
NoStructure == frame = 1 /\ viewAtoms = {} /\ atomPair = << >>

InitGetDistanceData ==
    /\ rep = "getDistanceData"
    /\ frame \in Frames
    /\ viewAtoms \in Views
    /\ atomPair \in PairLists(MaxPairs)
    /\ polymers = << >>
    /\ RocketDefaults
    /\ Unbuilt
    /\ NoControls
    /\ NoBuffer

NextGetDistanceData == GetDistanceData

SpecGetDistanceData ==
    InitGetDistanceData /\ [][NextGetDistanceData]_vars

InitDistance ==
    /\ rep = "distance"
    /\ frame = 1
    /\ viewAtoms \in Views
    /\ atomPair \in PairLists(MaxPairs - 1)
    /\ polymers = << >>
    /\ RocketDefaults
    /\ Unbuilt
    /\ NoControls
    /\ NoBuffer

NextDistance == DistanceBuild \/ DistanceUpdate \/ StructureMoves

SpecDistance == InitDistance /\ [][NextDistance]_vars

----------------------------------------------------------------------------
(* LabelRepresentation.createData and .updateData *)

\* LabelFactory.atomLabel( ap ) for every atom of the view
LabelText(sview) == Ascending(sview)

\* the text buffer createData builds
LabelCreateData(sview, f) ==
    LET atomData == getAtomData(sview, f)
    IN TextBuffer(atomData.position, atomData.radius, atomData.color,
                  LabelText(sview))

\* LabelTextKeys handing over the size with every colour change
LabelTextKeysSizeWithColor(S) ==
    (IF "position" \in S THEN {"position"} ELSE {})
    \cup (IF "radius" \in S \/ "color" \in S THEN {"size"} ELSE {})
    \cup (IF "color" \in S THEN {"color"} ELSE {})

\* the channels updateData( S, data ) puts into textData
LabelTextKeys(S) ==
    (IF "position" \in S THEN {"position"} ELSE {})
    \cup (IF "radius" \in S THEN {"size"} ELSE {})
    \cup (IF "color" \in S THEN {"color"} ELSE {})

\* the state updateData( S, data ) leaves behind
LabelUpdateData(S, sview, f, tb) ==
    LET atomData == getAtomData(sview, f)
        textAll == [position |-> atomData.position,
                    size |-> atomData.radius,
                    color |-> atomData.color]
        td == Pick(textAll, LabelTextKeys(S))
    IN [textData |-> td, textBuffer |-> setAttributes(tb, td)]

LabelBuild ==
    /\ rep = "label"
    /\ viewAtoms # {}
    /\ textBuffer' = << LabelCreateData(viewAtoms, frame) >>
    /\ dataList' = << [bufferList |-> 1] >>
    /\ op' = "build"
    /\ what' = << >> /\ textData' = {} /\ cylinderData' = {}
    /\ resolved' = FALSE
    /\ UNCHANGED << rep, frame, viewAtoms, atomPair, distanceData,
                    cylinderBuffer >>
    /\ UNCHANGED rocketVars
    /\ UNCHANGED objectVars

LabelUpdate ==
    /\ rep = "label"
    /\ dataList # << >>
    /\ \E S \in WhatSets :
         LET r == LabelUpdateData(S, viewAtoms, frame, textBuffer[1])
         IN /\ textBuffer' = << r.textBuffer >>
            /\ textData' = DOMAIN r.textData
            /\ what' = << S >>
    /\ op' = "updateData"
    /\ cylinderData' = {} /\ resolved' = FALSE
    /\ UNCHANGED << rep, frame, viewAtoms, atomPair, distanceData, dataList,
                    cylinderBuffer >>
    /\ UNCHANGED rocketVars
    /\ UNCHANGED objectVars

InitLabel ==
    /\ rep = "label"
    /\ frame = 1
    /\ viewAtoms \in Views
    /\ atomPair = << >>
    /\ polymers = << >>
    /\ RocketDefaults
    /\ Unbuilt
    /\ NoControls
    /\ NoBuffer

NextLabel == LabelBuild \/ LabelUpdate \/ StructureMoves

----------------------------------------------------------------------------
(* RocketRepresentation.createData and .updateData *)

\* a polymer: its residue count, whether it is nucleic, and the number of axis
\* segments Helixbundle.getAxis finds in it
PolymerKinds ==
    { [residueCount |-> 3, nucleic |-> FALSE, segs |-> 1],
      [residueCount |-> 5, nucleic |-> TRUE, segs |-> 1] }
    \cup { [residueCount |-> 4, nucleic |-> FALSE, segs |-> c] : c \in 0..MaxSegs }

RECURSIVE PolymerLists(_)
PolymerLists(n) ==
    IF n = 0 THEN { << >> }
    ELSE LET shorter == PolymerLists(n - 1)
         IN shorter \cup { Append(l, k) :
                              l \in { x \in shorter : Len(x) = n - 1 },
                              k \in PolymerKinds }

\* helixbundle.getAxis( localAngle, centerDist, ssBorder, colorParams, radius,
\* scale ) for the polymer at position pi of the structure: one entry per
\* segment, every value naming its polymer, its place and the parameters it
\* was computed from
getAxis(ps, pi, cs, rad, sc) ==
    LET c == ps[pi].segs
    IN [begin |-> [t \in 1..(3 * c) |-> 100 * pi + t],
        end |-> [t \in 1..(3 * c) |-> 100 * pi + 50 + t],
        size |-> [t \in 1..c |-> 1000 * rad * sc + 100 * pi + t],
        color |-> [t \in 1..(3 * c) |-> 1000 * cs + 100 * pi + t],
        pickingColor |-> [t \in 1..(3 * c) |-> 100 * pi + 20 + t]]

\* the polymers createData keeps: the callback's early return skips the others
RocketEligible(polymer) ==
    ~(polymer.residueCount < 4 \/ polymer.nucleic)

\* structure.eachPolymer( callback ): the positions of the kept polymers, in
\* iteration order (helixbundleList)
RocketBundles(ps) ==
    SelectSeq([k \in 1..Len(ps) |-> k], LAMBDA k : RocketEligible(ps[k]))

\* the sum of the segment counts of the first m axes
RECURSIVE AxisLength(_, _)
AxisLength(axisList, m) ==
    IF m = 0 THEN 0
    ELSE AxisLength(axisList, m - 1) + Len(axisList[m].size)

\* RocketConcat advancing the offset by one per polymer, not by its segments
RECURSIVE RocketConcatByOne(_, _, _, _)
RocketConcatByOne(axisList, k, offset, axisData) ==
    IF k > Len(axisList) THEN axisData
    ELSE LET axis == axisList[k]
         IN RocketConcatByOne(axisList, k + 1, offset + 1,
                [begin |-> SetAt(axisData.begin, axis.begin, offset * 3),
                 end |-> SetAt(axisData.end, axis.end, offset * 3),
                 size |-> SetAt(axisData.size, axis.size, offset),
                 color |-> SetAt(axisData.color, axis.color, offset * 3),
                 pickingColor |-> SetAt(axisData.pickingColor,
                                        axis.pickingColor, offset * 3)])

\* axisList.forEach of createData from axis k on, the running offset
\* being "offset"
RECURSIVE RocketConcat(_, _, _, _)
RocketConcat(axisList, k, offset, axisData) ==
    IF k > Len(axisList) THEN axisData
    ELSE LET axis == axisList[k]
         IN RocketConcat(axisList, k + 1, offset + Len(axis.size),
                [begin |-> SetAt(axisData.begin, axis.begin, offset * 3),
                 end |-> SetAt(axisData.end, axis.end, offset * 3),
                 size |-> SetAt(axisData.size, axis.size, offset),
                 color |-> SetAt(axisData.color, axis.color, offset * 3),
                 pickingColor |-> SetAt(axisData.pickingColor,
                                        axis.pickingColor, offset * 3)])

RocketCreateData(ps, cs, rad, sc) ==
    LET helixbundleList == RocketBundles(ps)
        axisList == [k \in 1..Len(helixbundleList) |->
                        getAxis(ps, helixbundleList[k], cs, rad, sc)]
        length == AxisLength(axisList, Len(axisList))
        axisData == RocketConcat(axisList, 1, 0,
                        [begin |-> Zeros(length * 3),
                         end |-> Zeros(length * 3),
                         size |-> Zeros(length),
                         color |-> Zeros(length * 3),
                         pickingColor |-> Zeros(length * 3)])
    IN [bufferList |-> CylinderBuffer(axisData.begin, axisData.end,
                                      axisData.color, axisData.color,
                                      axisData.size, axisData.pickingColor,
                                      axisData.pickingColor),
        axisList |-> axisList,
        helixbundleList |-> helixbundleList,
        axisData |-> axisData]

\* the channels updateData( S, data ) puts into cylinderData
RocketCylinderKeys(S) ==
    IF "color" \in S \/ "radius" \in S
    THEN (IF "color" \in S THEN {"color", "color2"} ELSE {})
         \cup (IF "radius" \in S \/ "scale" \in S THEN {"radius"} ELSE {})
    ELSE {}

\* RocketRewrite advancing the offset by one per bundle, not by its segments
RECURSIVE RocketRewriteByOne(_, _, _, _, _, _, _, _)
RocketRewriteByOne(S, ps, cs, rad, sc, data, k, offset) ==
    IF k > Len(data.helixbundleList) THEN data.axisData
    ELSE LET axis == getAxis(ps, data.helixbundleList[k], cs, rad, sc)
             a == data.axisData
             a2 == [a EXCEPT
                      !.color = IF "color" \in S
                                THEN SetAt(a.color, axis.color, offset * 3)
                                ELSE a.color,
                      !.size = IF "radius" \in S \/ "scale" \in S
                               THEN SetAt(a.size, axis.size, offset)
                               ELSE a.size]
         IN RocketRewriteByOne(S, ps, cs, rad, sc,
                               [data EXCEPT !.axisData = a2], k + 1, offset + 1)

\* data.helixbundleList.forEach of updateData from bundle k on
RECURSIVE RocketRewrite(_, _, _, _, _, _, _, _)
RocketRewrite(S, ps, cs, rad, sc, data, k, offset) ==
    IF k > Len(data.helixbundleList) THEN data.axisData
    ELSE LET axis == getAxis(ps, data.helixbundleList[k], cs, rad, sc)
             a == data.axisData
             a2 == [a EXCEPT
                      !.color = IF "color" \in S
                                THEN SetAt(a.color, axis.color, offset * 3)
                                ELSE a.color,
                      !.size = IF "radius" \in S \/ "scale" \in S
                               THEN SetAt(a.size, axis.size, offset)
                               ELSE a.size]
         IN RocketRewrite(S, ps, cs, rad, sc, [data EXCEPT !.axisData = a2],
                          k + 1, offset + Len(axis.size))

\* the state updateData( S, data ) leaves behind; S holds no position
RocketUpdateData(S, ps, cs, rad, sc, data) ==
    LET axisData == IF "color" \in S \/ "radius" \in S
                    THEN RocketRewrite(S, ps, cs, rad, sc, data, 1, 0)
                    ELSE data.axisData
        cylinderAll == [color |-> axisData.color,
                        color2 |-> axisData.color,
                        radius |-> axisData.size]
        cd == Pick(cylinderAll, RocketCylinderKeys(S))
    IN [data |-> [data EXCEPT !.axisData = axisData,
                              !.bufferList = setAttributes(data.bufferList, cd)],
        cylinderData |-> cd]

\* the change-sets a RocketRepresentation is updated with
RocketWhatSets == { S \in WhatSets : S \subseteq Channels \ {"labelSize", "labelColor"} }

RocketBuild ==
    /\ rep = "rocket"
    /\ rocketData' = << RocketCreateData(polymers, colorScheme, radius, scale) >>
    /\ op' = "build"
    /\ what' = << >> /\ textData' = {} /\ cylinderData' = {}
    /\ UNCHANGED << rep, polymers, colorScheme, radius, scale, resolved,
                    cylinderBuffer >>
    /\ UNCHANGED distanceVars
    /\ UNCHANGED objectVars

\* the base setParameters stores new parameter values
RocketAssign ==
    /\ rep = "rocket"
    /\ rocketData # << >>
    /\ \E cs \in 1..MaxParam, rad \in 1..MaxParam, sc \in 1..MaxParam :
         /\ << cs, rad, sc >> # << colorScheme, radius, scale >>
         /\ colorScheme' = cs /\ radius' = rad /\ scale' = sc
    /\ op' = "assign"
    /\ what' = << >> /\ textData' = {} /\ cylinderData' = {}
    /\ UNCHANGED << rep, polymers, rocketData, resolved, cylinderBuffer >>
    /\ UNCHANGED distanceVars
    /\ UNCHANGED objectVars

RocketUpdate ==
    /\ rep = "rocket"
    /\ rocketData # << >>
    /\ \E S \in RocketWhatSets :
         /\ what' = << S >>
         /\ IF "position" \in S
            THEN /\ rocketData' = << RocketCreateData(polymers, colorScheme,
                                                      radius, scale) >>
                 /\ cylinderData' = {}
            ELSE LET r == RocketUpdateData(S, polymers, colorScheme, radius,
                                           scale, rocketData[1])
                 IN /\ rocketData' = << r.data >>
                    /\ cylinderData' = DOMAIN r.cylinderData
    /\ op' = "updateData"
    /\ textData' = {}
    /\ UNCHANGED << rep, polymers, colorScheme, radius, scale, resolved,
                    cylinderBuffer >>
    /\ UNCHANGED distanceVars
    /\ UNCHANGED objectVars

InitRocketCreate ==
    /\ rep = "rocket"
    /\ polymers \in PolymerLists(MaxPolymers)
    /\ RocketDefaults
    /\ NoStructure
    /\ Unbuilt
    /\ NoControls
    /\ NoBuffer

NextRocketCreate == RocketBuild

SpecRocketCreate == InitRocketCreate /\ [][NextRocketCreate]_vars

InitRocket ==
    /\ rep = "rocket"
    /\ polymers \in PolymerLists(MaxPolymers - 1)
    /\ RocketDefaults
    /\ NoStructure
    /\ Unbuilt
    /\ NoControls
    /\ NoBuffer

NextRocket == RocketBuild \/ RocketAssign \/ RocketUpdate

SpecRocket == InitRocket /\ [][NextRocket]_vars

\* the three representations, each run building and updating one of them
InitUpdate == InitLabel \/ InitDistance \/ InitRocket

NextUpdate == NextLabel \/ NextDistance \/ NextRocket

SpecUpdate == InitUpdate /\ [][NextUpdate]_vars

----------------------------------------------------------------------------
(* updateData called without a change-set *)

\* what a call that passes no change-set is recorded with: a value that is
\* no change-set (no subset of Channels)
Undefined == { "undefined" }

\* LabelRepresentation.updateData( undefined, data ): each of the three
\* "!what || what.x" tests holds, so every channel is handed over
LabelUpdateDataUndefined(sview, f, tb) ==
    LabelUpdateData({"position", "radius", "color"}, sview, f, tb)

LabelUpdateUndefined ==
    /\ rep = "label"
    /\ dataList # << >>
    /\ \E r \in { LabelUpdateDataUndefined(viewAtoms, frame, textBuffer[1]) } :
         /\ textBuffer' = << r.textBuffer >>
         /\ textData' = DOMAIN r.textData
    /\ what' = << Undefined >>
    /\ op' = "updateData"
    /\ cylinderData' = {} /\ resolved' = FALSE
    /\ UNCHANGED << rep, frame, viewAtoms, atomPair, distanceData, dataList,
                    cylinderBuffer >>
    /\ UNCHANGED rocketVars
    /\ UNCHANGED objectVars

\* DistanceRepresentation.updateData( undefined, data ): "!what" lets the
\* first block resolve the pairs again and store the result in data,
\* getBondData runs, and the next test reads "what.position" off undefined,
\* which throws a TypeError before any channel is set or handed over
DistanceUpdateDataUndefined(dd) ==
    [data |-> [bondSet |-> dd.bondSet,
               bondStore |-> dd.bondStore,
               position |-> dd.position],
     thrown |-> "TypeError"]

DistanceUpdateUndefined ==
    /\ rep = "distance"
    /\ dataList # << >>
    /\ \E r \in { DistanceUpdateDataUndefined(
                      getDistanceData(viewAtoms, frame, atomPair)) } :
         /\ dataList' = << r.data >>
         /\ op' = r.thrown
    /\ what' = << Undefined >>
    /\ resolved' = TRUE
    /\ textData' = {} /\ cylinderData' = {}
    /\ UNCHANGED << rep, frame, viewAtoms, atomPair, distanceData, textBuffer,
                    cylinderBuffer >>
    /\ UNCHANGED rocketVars
    /\ UNCHANGED objectVars

InitUndefined == InitLabel \/ InitDistance

NextUndefined ==
    NextLabel \/ NextDistance \/ LabelUpdateUndefined \/ DistanceUpdateUndefined

SpecUndefined == InitUndefined /\ [][NextUndefined]_vars

----------------------------------------------------------------------------
(* DistanceRepresentation.setVisibility and .setParameters *)

\* whether a number is truthy in a JavaScript condition
Truthy(v) == v # 0

\* new THREE.Color( hex ): the components ( r, g, b ), each in 0 .. 255
ColorOf(hex) == << hex \div 65536, (hex \div 256) % 256, hex % 256 >>

\* the label sizes and label colours a caller supplies: 0x000000 is black
LabelSizes == 1..MaxParam
LabelColors == { 0, White }

\* the params objects setParameters is called with: each of labelSize,
\* labelColor and labelVisible supplied or absent (the object without a key
\* stands for an undefined params too)
ParamsObjects ==
    { Pick(full, K) :
        full \in [labelSize : LabelSizes, labelColor : LabelColors,
                  labelVisible : BOOLEAN],
        K \in SUBSET {"labelSize", "labelColor", "labelVisible"} }

\* StructureRepresentation.prototype.setVisibility( value, noRenderRequest ):
\* stores the flag, gives it to every buffer of the bufferList and requests a
\* render unless told not to
BaseSetVisibility(value, noRenderRequest, st, vis) ==
    [stored |-> [st EXCEPT !.visible = value],
     visibility |-> [b \in DOMAIN vis |-> value],
     requests |-> IF noRenderRequest THEN 0 ELSE 1]

\* setVisibility after the base call returned r: the text buffer, if there is
\* one, is shown when labelVisible and visible both hold, and a render is
\* requested unless noRenderRequest is truthy
setVisibilityAfterBase(noRenderRequest, hasText, r) ==
    [stored |-> r.stored,
     visibility |-> IF hasText
                    THEN [r.visibility EXCEPT
                            !["text"] = r.stored.labelVisible
                                        /\ r.stored.visible]
                    ELSE r.visibility,
     requests |-> r.requests + (IF noRenderRequest THEN 0 ELSE 1)]

\* setVisibility as inherited: the base call alone, with the caller's
\* noRenderRequest
setVisibilityInherited(value, noRenderRequest, hasText, st, vis) ==
    BaseSetVisibility(value, noRenderRequest, st, vis)

\* DistanceRepresentation.setVisibility( value, noRenderRequest )
setVisibility(value, noRenderRequest, hasText, st, vis) ==
    setVisibilityAfterBase(noRenderRequest, hasText,
                           BaseSetVisibility(value, TRUE, st, vis))

\* the change-set setParameters builds from params
DistanceParametersWhat(p) ==
    (IF "labelSize" \in DOMAIN p /\ Truthy(p.labelSize)
     THEN {"labelSize"} ELSE {})
    \cup (IF "labelColor" \in DOMAIN p /\ Truthy(p.labelColor)
          THEN {"labelColor"} ELSE {})

\* the label channels updateData computes from the stored parameters, for a
\* pair list of length n
DistanceLabelData(n, st) ==
    [size |-> uniformArray(n, st.labelSize),
     color |-> uniformArray3(n, ColorOf(st.labelColor)[1],
                             ColorOf(st.labelColor)[2],
                             ColorOf(st.labelColor)[3])]

\* the base setParameters once the supplied values are stored in st: with
\* rebuild false, a change-set that is not empty is handed to update, which
\* runs updateData and requests a render
BaseUpdate(S, st, tb, n) ==
    [stored |-> st,
     textBuffer |-> IF S # {} /\ tb # << >>
                    THEN << setAttributes(tb[1],
                                Pick(DistanceLabelData(n, st),
                                     DistanceTextKeys(S))) >>
                    ELSE tb,
     requests |-> IF S # {} THEN 1 ELSE 0]

\* StructureRepresentation.prototype.setParameters( params, what, rebuild )
\* with rebuild false: every supplied parameter is stored, then update runs
BaseSetParameters(p, S, st, tb, n) ==
    BaseUpdate(S,
               [k \in DOMAIN st |-> IF k \in DOMAIN p THEN p[k] ELSE st[k]],
               tb, n)

\* this.setVisibility( this.visible ) after the base call returned b
setParametersVisibility(b, hasText, vis) ==
    setVisibility(b.stored.visible, FALSE, hasText, b.stored, vis)

\* setParameters after the base call returned b, v being what the closing
\* setVisibility call would leave
setParametersAfterBase(p, S, b, v, vis) ==
    [baseCall |-> [what |-> S, rebuild |-> FALSE],
     textBuffer |-> b.textBuffer,
     stored |-> IF "labelVisible" \in DOMAIN p THEN v.stored ELSE b.stored,
     visibility |-> IF "labelVisible" \in DOMAIN p THEN v.visibility ELSE vis,
     requests |-> IF "labelVisible" \in DOMAIN p
                  THEN b.requests + v.requests ELSE b.requests]

\* setParameters from the base call on
setParametersFrom(p, S, b, hasText, vis) ==
    setParametersAfterBase(p, S, b, setParametersVisibility(b, hasText, vis),
                           vis)

\* DistanceRepresentation.setParameters( params )
setParameters(p, st, vis, tb, n) ==
    setParametersFrom(p, DistanceParametersWhat(p),
                      BaseSetParameters(p, DistanceParametersWhat(p), st, tb,
                                        n),
                      tb # << >>, vis)

DistanceSetVisibility ==
    /\ rep = "parameters"
    /\ \E value \in BOOLEAN, noRenderRequest \in BOOLEAN :
         /\ \E r \in { setVisibility(value, noRenderRequest,
                                     textBuffer # << >>, stored,
                                     visibility) } :
              /\ stored' = r.stored
              /\ visibility' = r.visibility
              /\ requests' = r.requests
         /\ lastParams' = << [value |-> value,
                              noRenderRequest |-> noRenderRequest] >>
    /\ baseCall' = << >>
    /\ op' = "setVisibility"
    /\ UNCHANGED << rep, what, textData, cylinderData, resolved,
                    cylinderBuffer >>
    /\ UNCHANGED distanceVars
    /\ UNCHANGED rocketVars
    /\ UNCHANGED << controlVars, bufferVars >>

DistanceSetParameters ==
    /\ rep = "parameters"
    /\ \E p \in ParamsObjects :
         /\ \E r \in { setParameters(p, stored, visibility, textBuffer,
                                     Len(atomPair)) } :
              /\ stored' = r.stored
              /\ visibility' = r.visibility
              /\ requests' = r.requests
              /\ textBuffer' = r.textBuffer
              /\ baseCall' = << r.baseCall >>
         /\ lastParams' = << p >>
    /\ op' = "setParameters"
    /\ UNCHANGED << rep, what, textData, cylinderData, resolved,
                    cylinderBuffer >>
    /\ UNCHANGED << frame, viewAtoms, atomPair, distanceData, dataList >>
    /\ UNCHANGED rocketVars
    /\ UNCHANGED << controlVars, bufferVars >>

\* a DistanceRepresentation constructed with any visible and labelVisible
\* and built on a view of all atoms: create leaves the text buffer shown as
\* labelVisible says and the cylinder buffer as visible says, or, for an
\* empty pair list, builds nothing
InitParameters ==
    /\ rep = "parameters"
    /\ frame = 1
    /\ viewAtoms = Atoms
    /\ atomPair \in PairLists(1)
    /\ stored \in [visible : BOOLEAN, labelVisible : BOOLEAN,
                   labelSize : {labelSize}, labelColor : {White}]
    /\ \E r \in { DistanceCreate(viewAtoms, frame, atomPair) } :
         IF r.made
         THEN /\ textBuffer = << r.textBuffer >>
              /\ cylinderBuffer = << r.cylinderBuffer >>
              /\ dataList = << r.data >>
              /\ visibility = [text |-> stored.labelVisible,
                               cylinder |-> stored.visible]
         ELSE /\ textBuffer = << >> /\ cylinderBuffer = << >>
              /\ dataList = << >>
              /\ visibility = << >>
    /\ distanceData = << >>
    /\ what = << >> /\ textData = {} /\ cylinderData = {}
    /\ resolved = FALSE /\ op = "build"
    /\ rocketData = << >>
    /\ lastParams = << >> /\ baseCall = << >> /\ requests = 0
    /\ polymers = << >>
    /\ RocketDefaults
    /\ NoControls
    /\ NoBuffer

NextParameters == DistanceSetVisibility \/ DistanceSetParameters

SpecParameters == InitParameters /\ [][NextParameters]_vars

----------------------------------------------------------------------------
(* Vectors, quaternions and matrices of the viewer                         *)
(* A rotation matrix is three rows of three numbers.  A unit quaternion    *)
(* ( x, y, z, w ) is held with every component doubled, so a half-turn     *)
(* about the x axis, ( 1, 0, 0, 0 ), is << 2, 0, 0, 0 >>.  A Matrix4 is    *)
(* [ m, p ]: its upper-left 3 x 3 part and its position column.            *)

Identity3 == << << 1, 0, 0 >>, << 0, 1, 0 >>, << 0, 0, 1 >> >>

Diag(a, b, c) == << << a, 0, 0 >>, << 0, b, 0 >>, << 0, 0, c >> >>

\* the scene rotations of the model: the half-turns about the three axes
Rotations == { Identity3, Diag(1, -1, -1), Diag(-1, 1, -1), Diag(-1, -1, 1) }

\* the basis matrices align is called with, mirrored ones among them
Bases == { Diag(a, b, c) : a \in {-1, 1}, b \in {-1, 1}, c \in {-1, 1} }

Axes == { << 1, 0, 0 >>, << 0, 1, 0 >>, << 0, 0, 1 >> }

\* the angles spin is called with, in half-turns
Angles == { 0, 1 }

\* the vector translate and center are called with
Shifts == { << 1, 0, -1 >> }

VecAdd(u, v) == << u[1] + v[1], u[2] + v[2], u[3] + v[3] >>

VecNeg(u) == << -u[1], -u[2], -u[3] >>

MatMul(A, B) ==
    LET e(i, j) == A[i][1] * B[1][j] + A[i][2] * B[2][j] + A[i][3] * B[3][j]
    IN << << e(1, 1), e(1, 2), e(1, 3) >>,
          << e(2, 1), e(2, 2), e(2, 3) >>,
          << e(3, 1), e(3, 2), e(3, 3) >> >>

\* Vector3.applyMatrix4( m ) for a matrix without translation
MatVec(A, v) ==
    << A[1][1] * v[1] + A[1][2] * v[2] + A[1][3] * v[3],
       A[2][1] * v[1] + A[2][2] * v[2] + A[2][3] * v[3],
       A[3][1] * v[1] + A[3][2] * v[2] + A[3][3] * v[3] >>

Transpose(A) ==
    << << A[1][1], A[2][1], A[3][1] >>,
       << A[1][2], A[2][2], A[3][2] >>,
       << A[1][3], A[2][3], A[3][3] >> >>

Det(A) ==
    A[1][1] * (A[2][2] * A[3][3] - A[2][3] * A[3][2])
    - A[1][2] * (A[2][1] * A[3][3] - A[2][3] * A[3][1])
    + A[1][3] * (A[2][1] * A[3][2] - A[2][2] * A[3][1])

\* Matrix4.getInverse of an orthonormal matrix
getInverse(A) == Transpose(A)

\* Matrix4.scale( v ): column j is multiplied by v[ j ]
MatScale(A, v) ==
    << << A[1][1] * v[1], A[1][2] * v[2], A[1][3] * v[3] >>,
       << A[2][1] * v[1], A[2][2] * v[2], A[2][3] * v[3] >>,
       << A[3][1] * v[1], A[3][2] * v[2], A[3][3] * v[3] >> >>

\* Matrix4.makeRotationFromQuaternion
MatOfQuat(q) ==
    LET x == q[1]
        y == q[2]
        z == q[3]
        w == q[4]
    IN << << 1 - (y * y + z * z) \div 2, (x * y - w * z) \div 2,
             (x * z + w * y) \div 2 >>,
          << (x * y + w * z) \div 2, 1 - (x * x + z * z) \div 2,
             (y * z - w * x) \div 2 >>,
          << (x * z - w * y) \div 2, (y * z + w * x) \div 2,
             1 - (x * x + y * y) \div 2 >> >>

\* Quaternion.setFromRotationMatrix
QuatOfMat(m) ==
    LET trace == m[1][1] + m[2][2] + m[3][3]
    IN IF trace > 0
       THEN LET r == FloorRoot(trace + 1, 0, trace + 1)
            IN << (m[3][2] - m[2][3]) \div r, (m[1][3] - m[3][1]) \div r,
                  (m[2][1] - m[1][2]) \div r, r >>
       ELSE IF m[1][1] > m[2][2] /\ m[1][1] > m[3][3]
       THEN LET n == 1 + m[1][1] - m[2][2] - m[3][3]
                r == FloorRoot(n, 0, n)
            IN << r, (m[1][2] + m[2][1]) \div r, (m[1][3] + m[3][1]) \div r,
                  (m[3][2] - m[2][3]) \div r >>
       ELSE IF m[2][2] > m[3][3]
       THEN LET n == 1 + m[2][2] - m[1][1] - m[3][3]
                r == FloorRoot(n, 0, n)
            IN << (m[1][2] + m[2][1]) \div r, r, (m[2][3] + m[3][2]) \div r,
                  (m[1][3] - m[3][1]) \div r >>
       ELSE LET n == 1 + m[3][3] - m[1][1] - m[2][2]
                r == FloorRoot(n, 0, n)
            IN << (m[1][3] + m[3][1]) \div r, (m[2][3] + m[3][2]) \div r, r,
                  (m[2][1] - m[1][2]) \div r >>

\* Quaternion.multiplyQuaternions( a, b )
QuatMul(a, b) ==
    << (a[1] * b[4] + a[4] * b[1] + a[2] * b[3] - a[3] * b[2]) \div 2,
       (a[2] * b[4] + a[4] * b[2] + a[3] * b[1] - a[1] * b[3]) \div 2,
       (a[3] * b[4] + a[4] * b[3] + a[1] * b[2] - a[2] * b[1]) \div 2,
       (a[4] * b[4] - a[1] * b[1] - a[2] * b[2] - a[3] * b[3]) \div 2 >>

\* Quaternion.setFromAxisAngle( axis, angle ), the angle in half-turns
QuatOfAxisAngle(axis, halfTurns) ==
    IF halfTurns % 2 = 0 THEN << 0, 0, 0, 2 >>
    ELSE << 2 * axis[1], 2 * axis[2], 2 * axis[3], 0 >>

\* Matrix4.compose( position, quaternion, scale )
Compose(t, q, sv) == [m |-> MatScale(MatOfQuat(q), sv), p |-> t]

\* Matrix4.decompose( position, quaternion, scale )
Decompose(M) ==
    LET col(j) == M.m[1][j] * M.m[1][j] + M.m[2][j] * M.m[2][j]
                  + M.m[3][j] * M.m[3][j]
        len(j) == FloorRoot(col(j), 0, col(j))
        sx == IF Det(M.m) < 0 THEN -len(1) ELSE len(1)
        sy == len(2)
        sz == len(3)
        rot == << << M.m[1][1] \div sx, M.m[1][2] \div sy, M.m[1][3] \div sz >>,
                  << M.m[2][1] \div sx, M.m[2][2] \div sy, M.m[2][3] \div sz >>,
                  << M.m[3][1] \div sx, M.m[3][2] \div sy, M.m[3][3] \div sz >> >>
    IN [p |-> M.p, q |-> QuatOfMat(rot), s |-> << sx, sy, sz >>]

\* Object3D.updateMatrix of the rotation group, as the renderer calls it
updateMatrix(q) == MatOfQuat(q)

\* whether every coordinate of a vector is within the model's range
InRange(v) == \A c \in 1..3 : v[c] >= -MaxShift /\ v[c] <= MaxShift

----------------------------------------------------------------------------
(* ViewerControls *)

\* the orientation matrices setOrientation is called with: a rotation, a
\* translation and a positive uniform scale, composed; each with the triple
\* it was composed from
Orientations ==
    { [t |-> t, q |-> QuatOfMat(R), s |-> sc] :
        t \in Shifts \cup { << 0, 0, 0 >> }, R \in Rotations, sc \in 1..MaxZ }

\* a call that returns nothing
Returns(name, arg) ==
    /\ op' = name
    /\ callArg' = arg
    /\ orientation' = << >>

\* what leaves the representations and the buffer alone
ControlsFrame ==
    /\ UNCHANGED << rep, what, textData, cylinderData, resolved,
                    cylinderBuffer >>
    /\ UNCHANGED distanceVars
    /\ UNCHANGED rocketVars
    /\ UNCHANGED bufferVars
    /\ UNCHANGED parameterVars

\* setOrientation( orientation )
setOrientation(M) ==
    LET d == Decompose(M)
    IN /\ rotationQuaternion' = d.q
       /\ translation' = d.p
       /\ cameraZ' = -d.s[3]
       /\ renderRequested' = TRUE
       /\ UNCHANGED rotationMatrix

ControlsSetOrientation ==
    /\ rep = "controls"
    /\ \E o \in Orientations :
         /\ setOrientation(Compose(o.t, o.q, << o.s, o.s, o.s >>))
         /\ Returns("setOrientation", << o >>)
    /\ ControlsFrame

\* getOrientation( optionalTarget ): the matrix returned
getOrientation ==
    LET z == -cameraZ
    IN [m |-> MatScale(rotationMatrix, << z, z, z >>), p |-> translation]

ControlsGetOrientation ==
    /\ rep = "controls"
    /\ orientation' = << getOrientation >>
    /\ op' = "getOrientation"
    /\ callArg' = << >>
    /\ UNCHANGED << rotationQuaternion, rotationMatrix, translation, cameraZ,
                    renderRequested >>
    /\ ControlsFrame

\* translate( vector )
ControlsTranslate ==
    /\ rep = "controls"
    /\ \E v \in Shifts :
         /\ InRange(VecAdd(translation, v))
         /\ translation' = VecAdd(translation, v)
    /\ renderRequested' = TRUE
    /\ Returns("translate", << >>)
    /\ UNCHANGED << rotationQuaternion, rotationMatrix, cameraZ >>
    /\ ControlsFrame

\* center( position )
ControlsCenter ==
    /\ rep = "controls"
    /\ \E v \in Shifts : translation' = VecNeg(v)
    /\ renderRequested' = TRUE
    /\ Returns("center", << >>)
    /\ UNCHANGED << rotationQuaternion, rotationMatrix, cameraZ >>
    /\ ControlsFrame

\* distance storing the negated depth, as setOrientation does with the scale
distanceNegated(z) ==
    /\ cameraZ' = -z
    /\ renderRequested' = TRUE
    /\ UNCHANGED << rotationQuaternion, rotationMatrix, translation >>

\* distance( z ); viewer.updateZoom() changes the camera's projection only
distance(z) ==
    /\ cameraZ' = z
    /\ renderRequested' = TRUE
    /\ UNCHANGED << rotationQuaternion, rotationMatrix, translation >>

ControlsDistance ==
    /\ rep = "controls"
    /\ \E z \in (-MaxZ)..MaxZ :
         /\ distance(z)
         /\ Returns("distance", << z >>)
    /\ ControlsFrame

\* zoom( delta )
ControlsZoom ==
    /\ rep = "controls"
    /\ \E delta \in -1..2 :
         /\ cameraZ * (1 - delta) \in (-MaxZ)..MaxZ
         /\ distance(cameraZ * (1 - delta))
         /\ Returns("zoom", << delta >>)
    /\ ControlsFrame

\* spin( axis, angle )
ControlsSpin ==
    /\ rep = "controls"
    /\ \E axis \in Axes, angle \in Angles :
         LET tmpRotateVector == MatVec(getInverse(rotationMatrix), axis)
         IN rotationQuaternion' =
                QuatMul(rotationQuaternion,
                        QuatOfAxisAngle(tmpRotateVector, angle))
    /\ renderRequested' = TRUE
    /\ Returns("spin", << >>)
    /\ UNCHANGED << rotationMatrix, translation, cameraZ >>
    /\ ControlsFrame

\* align( basis )
ControlsAlign ==
    /\ rep = "controls"
    /\ \E basis \in Bases :
         LET inv == getInverse(basis)
             tmpAlignMatrix == IF Det(inv) < 0
                               THEN MatScale(inv, << -1, -1, -1 >>)
                               ELSE inv
         IN rotationQuaternion' = QuatOfMat(tmpAlignMatrix)
    /\ renderRequested' = TRUE
    /\ Returns("align", << >>)
    /\ UNCHANGED << rotationMatrix, translation, cameraZ >>
    /\ ControlsFrame

\* applyMatrix( matrix ): Object3D.applyMatrix multiplies the group's matrix
\* and decomposes it into the group's quaternion
ControlsApplyMatrix ==
    /\ rep = "controls"
    /\ \E R \in Rotations :
         /\ rotationMatrix' = MatMul(R, rotationMatrix)
         /\ rotationQuaternion' = QuatOfMat(MatMul(R, rotationMatrix))
    /\ renderRequested' = TRUE
    /\ Returns("applyMatrix", << >>)
    /\ UNCHANGED << translation, cameraZ >>
    /\ ControlsFrame

\* the viewer renders a frame: the pending request is consumed and the scene
\* graph's matrices are brought up to date
ViewerRender ==
    /\ rep = "controls"
    /\ renderRequested
    /\ rotationMatrix' = updateMatrix(rotationQuaternion)
    /\ renderRequested' = FALSE
    /\ Returns("render", << >>)
    /\ UNCHANGED << rotationQuaternion, translation, cameraZ >>
    /\ ControlsFrame

InitControls ==
    /\ rep = "controls"
    /\ rotationQuaternion = << 0, 0, 0, 2 >>
    /\ rotationMatrix = Identity3
    /\ translation = << 0, 0, 0 >>
    /\ cameraZ \in (-MaxZ)..(-1)
    /\ renderRequested = FALSE
    /\ callArg = << >> /\ orientation = << >>
    /\ polymers = << >>
    /\ RocketDefaults
    /\ NoStructure
    /\ Unbuilt
    /\ NoBuffer

NextControls ==
    \/ ControlsSetOrientation \/ ControlsGetOrientation
    \/ ControlsTranslate \/ ControlsCenter
    \/ ControlsDistance \/ ControlsZoom
    \/ ControlsSpin \/ ControlsAlign \/ ControlsApplyMatrix
    \/ ViewerRender

SpecControls == InitControls /\ [][NextControls]_vars

----------------------------------------------------------------------------
(* HyperballStickImpostorBuffer *)

\* shrink = p.shrink !== undefined ? p.shrink : 0.14, in hundredths
defaultShrink == 14

\* the number of components of an attribute of a type
ItemSize(type) == IF type = "f" THEN 1 ELSE 3

\* BoxBuffer.call( this, p ): the base constructor; the buffer starts with a
\* position attribute and is not pickable
BoxBuffer(count) ==
    [pickable |-> FALSE, attributes |-> [position |-> Zeros(3 * count)]]

\* Buffer.addAttributes( attributes ): allocates an array of
\* count * itemSize zeros for every attribute named
addAttributes(attributes, count, types) ==
    [n \in DOMAIN types |-> Zeros(count * ItemSize(types[n]))] @@ attributes

\* Buffer.setAttributes( data ): copies every array of data into the
\* attribute of its name; no other attribute is touched
BufferSetAttributes(attributes, data) ==
    [n \in DOMAIN attributes |->
        IF n \in DOMAIN data
        THEN [k \in 1..Len(attributes[n]) |->
                 IF k <= Len(data[n]) THEN data[n][k] ELSE attributes[n][k]]
        ELSE attributes[n]]

\* the constructor without "this.pickable = true"
HyperballNeverPickable(position1, position2, color, color2, radius1, radius2, pickingColor, pickingColor2, shrinkParam) ==
    LET count == Len(position1) \div 3
        shrink == IF shrinkParam # << >> THEN shrinkParam[1] ELSE defaultShrink
        base == BoxBuffer(count)
        a1 == addAttributes(base.attributes, count,
                  [color |-> "c", color2 |-> "c",
                   radius |-> "f", radius2 |-> "f",
                   position1 |-> "v3", position2 |-> "v3"])
        a2 == BufferSetAttributes(a1,
                  [color |-> color, color2 |-> color2,
                   radius |-> radius1, radius2 |-> radius2,
                   position1 |-> position1, position2 |-> position2,
                   position |-> calculateCenterArray(position1, position2)])
        a3 == IF pickingColor # << >>
              THEN BufferSetAttributes(
                       addAttributes(a2, count,
                           [pickingColor |-> "c", pickingColor2 |-> "c"]),
                       [pickingColor |-> pickingColor[1],
                        pickingColor2 |-> pickingColor2[1]])
              ELSE a2
    IN [impostor |-> TRUE,
        count |-> count,
        shrink |-> shrink,
        attributes |-> a3,
        pickable |-> base.pickable]

\* new HyperballStickImpostorBuffer( position1, position2, color, color2,
\* radius1, radius2, pickingColor, pickingColor2, params ); an argument that
\* may be null or undefined is << >> or << value >>
HyperballStickImpostorBuffer(position1, position2, color, color2, radius1, radius2, pickingColor, pickingColor2, shrinkParam) ==
    LET count == Len(position1) \div 3
        shrink == IF shrinkParam # << >> THEN shrinkParam[1] ELSE defaultShrink
        base == BoxBuffer(count)
        a1 == addAttributes(base.attributes, count,
                  [color |-> "c", color2 |-> "c",
                   radius |-> "f", radius2 |-> "f",
                   position1 |-> "v3", position2 |-> "v3"])
        a2 == BufferSetAttributes(a1,
                  [color |-> color, color2 |-> color2,
                   radius |-> radius1, radius2 |-> radius2,
                   position1 |-> position1, position2 |-> position2,
                   position |-> calculateCenterArray(position1, position2)])
        a3 == IF pickingColor # << >>
              THEN BufferSetAttributes(
                       addAttributes(a2, count,
                           [pickingColor |-> "c", pickingColor2 |-> "c"]),
                       [pickingColor |-> pickingColor[1],
                        pickingColor2 |-> pickingColor2[1]])
              ELSE a2
    IN [impostor |-> TRUE,
        count |-> count,
        shrink |-> shrink,
        attributes |-> a3,
        pickable |-> IF pickingColor # << >> THEN TRUE ELSE base.pickable]

\* the arguments of a construction: count primitives, with or without
\* picking colours and a shrink parameter
HyperballArgs ==
    { [count |-> c,
       pickingColor |-> IF pc THEN << uniformArray(3 * c, 7) >> ELSE << >>,
       shrinkParam |-> sh] :
        c \in 0..MaxCount, pc \in BOOLEAN, sh \in { << >>, << 20 >> } }

\* the attributes one setAttributes call of a caller names together
ChannelGroups ==
    { {"color", "color2"}, {"radius", "radius2"}, {"color"},
      {"position1", "position2", "position"},
      {"pickingColor", "pickingColor2"} }

HyperballFrame ==
    /\ UNCHANGED << rep, what, textData, cylinderData, resolved,
                    cylinderBuffer, hargs >>
    /\ UNCHANGED distanceVars
    /\ UNCHANGED rocketVars
    /\ UNCHANGED controlVars
    /\ UNCHANGED parameterVars

\* setAttributes( data ) on the constructed buffer
HyperballSetAttributes ==
    /\ rep = "hyperball"
    /\ \E keys \in ChannelGroups, v \in 1..MaxValue :
         /\ keys \subseteq DOMAIN hbuf[1].attributes
         /\ hbuf' = << [hbuf[1] EXCEPT !.attributes =
                          BufferSetAttributes(hbuf[1].attributes,
                              [n \in keys |->
                                  uniformArray(Len(hbuf[1].attributes[n]), v)])] >>
    /\ op' = "setAttributes"
    /\ HyperballFrame

\* setParameters( { shrink: v } ): shrink is a uniform of the buffer
HyperballSetParameters ==
    /\ rep = "hyperball"
    /\ \E v \in 1..MaxValue : hbuf' = << [hbuf[1] EXCEPT !.shrink = v] >>
    /\ op' = "setParameters"
    /\ HyperballFrame

InitBuffer ==
    /\ rep = "hyperball"
    /\ hargs \in { << a >> : a \in HyperballArgs }
    /\ LET a == hargs[1]
       IN hbuf = << HyperballStickImpostorBuffer(
                       uniformArray(3 * a.count, 1),
                       uniformArray(3 * a.count, 3),
                       uniformArray(3 * a.count, 4),
                       uniformArray(3 * a.count, 5),
                       uniformArray(a.count, 6),
                       uniformArray(a.count, 6),
                       a.pickingColor, a.pickingColor,
                       a.shrinkParam) >>
    /\ polymers = << >>
    /\ RocketDefaults
    /\ NoStructure
    /\ Unbuilt
    /\ NoControls

NextBuffer == HyperballSetAttributes \/ HyperballSetParameters

SpecBuffer == InitBuffer /\ [][NextBuffer]_vars

----------------------------------------------------------------------------
(* Properties of getDistanceData *)

\* whether both selections of a pair match an atom of the view
PairResolves(sview, pair) ==
    (sview \cap pair[1]) # {} /\ (sview \cap pair[2]) # {}

\* the input positions of the resolved pairs, in input order
ResolvedAt(sview, pairs) ==
    Ascending({ k \in 1..Len(pairs) : PairResolves(sview, pairs[k]) })

\* the lowest atom index of a non-empty set
First(S) == CHOOSE x \in S : \A y \in S : x <= y

\* C1: getDistanceData returns a text array and a position array that both
\* hold exactly one entry per resolved pair: text.length = r and
\* position.length = 3 * r, with no placeholder left in either.
C1_OutputSizedToResolved ==
    distanceData # << >> =>
        LET r == Len(ResolvedAt(viewAtoms, atomPair))
            d == distanceData[1]
        IN /\ Len(d.text) = r
           /\ Len(d.position) = 3 * r
           /\ \A k \in 1..Len(d.text) : d.text[k] # Hole

\* C2: output slot k belongs to the k-th resolved pair in input order: bond k
\* joins the first atom of each side, position slot k is their midpoint, text
\* slot k is their distance rounded to hundredths; the bond set has one bit
\* per bond and every bit is set.
C2_SlotOfKthResolvedPair ==
    distanceData # << >> =>
        LET at == ResolvedAt(viewAtoms, atomPair)
            d == distanceData[1]
        IN /\ Len(d.bondStore) = Len(at)
           /\ Len(d.bondSet) = Len(d.bondStore)
           /\ \A k \in 1..Len(d.bondSet) : d.bondSet[k]
           /\ \A k \in 1..Len(at) :
                LET pair == atomPair[at[k]]
                    a1 == First(viewAtoms \cap pair[1])
                    a2 == First(viewAtoms \cap pair[2])
                    p == AtomXYZ(frame, a1)
                    q == AtomXYZ(frame, a2)
                    d2 == (p[1] - q[1]) * (p[1] - q[1])
                          + (p[2] - q[2]) * (p[2] - q[2])
                          + (p[3] - q[3]) * (p[3] - q[3])
                    h == d.text[k]
                IN /\ { d.bondStore[k].atomIndex1, d.bondStore[k].atomIndex2 }
                        = { a1, a2 }
                   /\ \A c \in 1..3 :
                        2 * d.position[3 * (k - 1) + c] = p[c] + q[c]
                   /\ h >= 0
                   /\ (h = 0 \/ (2 * h - 1) * (2 * h - 1) <= 40000 * d2)
                   /\ 40000 * d2 < (2 * h + 1) * (2 * h + 1)

\* a call with a dropped pair ahead of a resolved one, two resolved pairs and
\* two atoms at a distance that is no whole number
C2_Witness ==
    /\ distanceData # << >>
    /\ Len(atomPair) = 3
    /\ ~PairResolves(viewAtoms, atomPair[1])
    /\ PairResolves(viewAtoms, atomPair[2])
    /\ PairResolves(viewAtoms, atomPair[3])
    /\ distanceData[1].text[2] % 100 # 0

----------------------------------------------------------------------------
(* Properties of the update paths *)

PositionChannels == { "position", "position1", "position2" }

\* the position and radius channels of every buffer
GeometryOf(tb, cb, rd) ==
    << [k \in 1..Len(tb) |-> << tb[k].position, tb[k].size >>],
       [k \in 1..Len(cb) |-> << cb[k].position, cb[k].position1,
                                cb[k].position2, cb[k].radius >>],
       [k \in 1..Len(rd) |-> << rd[k].bufferList.position,
                                rd[k].bufferList.position1,
                                rd[k].bufferList.position2,
                                rd[k].bufferList.radius >>] >>

\* C3 as stated: a channel is handed to setAttributes only when the
\* change-set names it: a position channel only with position, a radius or
\* size channel only with radius or scale, a colour channel only with color
\* (or labelColor, for the distance text buffer).
C3_ChannelsOnlyWhenNamed ==
    op = "updateData" =>
        LET S == what[1]
        IN /\ (PositionChannels \cap (textData \cup cylinderData) # {}
                 => "position" \in S)
           /\ ("size" \in textData \/ "radius" \in cylinderData
                 => "radius" \in S \/ "scale" \in S)
           /\ ({"color", "color2"} \cap cylinderData # {} => "color" \in S)
           /\ ("color" \in textData
                 => "color" \in S \/ (rep = "distance" /\ "labelColor" \in S))

\* C3, amended: as above, but the size channel of the distance text buffer is
\* handed over with labelSize (and only with it); and an update with the
\* change-set { color } leaves every position and radius channel of every
\* buffer as it was.
C3_ChannelsOnlyWhenNamedOrLabelSize ==
    [][op' = "updateData" =>
        LET S == what'[1]
        IN /\ (PositionChannels \cap (textData' \cup cylinderData') # {}
                 => "position" \in S)
           /\ ("radius" \in cylinderData' => "radius" \in S \/ "scale" \in S)
           /\ ("size" \in textData'
                 => IF rep = "distance" THEN "labelSize" \in S
                    ELSE "radius" \in S \/ "scale" \in S)
           /\ ({"color", "color2"} \cap cylinderData' # {} => "color" \in S)
           /\ ("color" \in textData'
                 => IF rep = "distance" THEN "labelColor" \in S
                    ELSE "color" \in S)
           /\ (S = {"color"}
                 => GeometryOf(textBuffer', cylinderBuffer', rocketData')
                    = GeometryOf(textBuffer, cylinderBuffer, rocketData))
      ]_vars

\* a colour-only update of a label after the structure moved: the buffer's
\* positions are stale and stay so
C3_Witness ==
    /\ rep = "label"
    /\ op = "updateData"
    /\ what = << {"color"} >>
    /\ textData = {"color"}
    /\ frame # 1
    /\ textBuffer[1].position # getAtomData(viewAtoms, frame).position

----------------------------------------------------------------------------
(* Properties of RocketRepresentation.createData *)

\* the positions of the eligible polymers, in polymer order
EligibleAt(ps) ==
    Ascending({ k \in 1..Len(ps) :
                  ps[k].residueCount >= 4 /\ ~ps[k].nucleic })

\* the segment counts of the first m eligible polymers, summed
RECURSIVE SegsBefore(_, _, _)
SegsBefore(ps, at, m) ==
    IF m = 0 THEN 0 ELSE SegsBefore(ps, at, m - 1) + ps[at[m]].segs

\* C4: createData concatenates the axis segments of the eligible polymers in
\* polymer order: the flat arrays have the summed length, segment i of the
\* k-th eligible polymer is in slot (segments of the eligible polymers before
\* k) + i, and axisList and helixbundleList hold one entry per eligible
\* polymer in that order.
C4_AxesConcatenatedInOrder ==
    rocketData # << >> =>
        LET d == rocketData[1]
            at == EligibleAt(polymers)
            total == SegsBefore(polymers, at, Len(at))
        IN /\ Len(d.axisData.size) = total
           /\ \A lane \in {"begin", "end", "color", "pickingColor"} :
                Len(d.axisData[lane]) = 3 * total
           /\ d.helixbundleList = at
           /\ Len(d.axisList) = Len(at)
           /\ \A k \in 1..Len(at) :
                LET axis == getAxis(polymers, at[k], colorScheme, radius, scale)
                    base == SegsBefore(polymers, at, k - 1)
                IN /\ d.axisList[k] = axis
                   /\ Len(axis.size) = polymers[at[k]].segs
                   /\ \A i \in 1..polymers[at[k]].segs :
                        /\ d.axisData.size[base + i] = axis.size[i]
                        /\ \A lane \in {"begin", "end", "color", "pickingColor"},
                              c \in 1..3 :
                             d.axisData[lane][3 * (base + i - 1) + c]
                             = axis[lane][3 * (i - 1) + c]

\* three eligible polymers built, the middle one without a segment
C4_Witness ==
    /\ rocketData # << >>
    /\ Len(polymers) = 3
    /\ \A k \in 1..3 : polymers[k].residueCount = 4 /\ ~polymers[k].nucleic
    /\ polymers[1].segs = 2 /\ polymers[2].segs = 0 /\ polymers[3].segs = 1
    /\ Len(rocketData[1].axisData.size) = 3

----------------------------------------------------------------------------
(* Properties of DistanceRepresentation.create and .updateData *)

\* C8: create produces zero buffers rather than zero-length ones: nothing is
\* built for an empty view or an empty pair list, and every text or cylinder
\* buffer that is built holds at least one primitive.
C8_NoZeroLengthBuffer ==
    (rep = "distance" /\ op = "build") =>
        IF viewAtoms = {} \/ atomPair = << >>
        THEN dataList = << >> /\ textBuffer = << >> /\ cylinderBuffer = << >>
        ELSE /\ (textBuffer # << >> => Len(textBuffer[1].position) >= 3)
             /\ (cylinderBuffer # << >>
                   => Len(cylinderBuffer[1].position1) >= 3)

\* C9: the size array of the text buffer has one entry per label position and
\* the colour array three, at create and after every updateData.
C9_TextAttributeLengths ==
    (rep = "distance" /\ textBuffer # << >>) =>
        /\ 3 * Len(textBuffer[1].size) = Len(textBuffer[1].position)
        /\ Len(textBuffer[1].color) = Len(textBuffer[1].position)

\* the midpoints of the resolved pairs in coordinate frame f
Midpoints(sview, f, pairs) ==
    LET at == ResolvedAt(sview, pairs)
    IN [t \in 1..(3 * Len(at)) |->
          LET pair == pairs[at[(t + 2) \div 3]]
              c == ((t - 1) % 3) + 1
          IN (AtomXYZ(f, First(sview \cap pair[1]))[c]
              + AtomXYZ(f, First(sview \cap pair[2]))[c]) \div 2]

\* C10: updateData resolves the atom pairs again, replacing the data's bond
\* table and positions, if and only if the change-set holds position; for a
\* change-set within { color, radius, scale } the text buffer is handed
\* nothing and the cylinder channels come from the bond table resolved before;
\* for a change-set within { labelSize, labelColor } the cylinder buffer is
\* handed nothing.
C10_ResolvesIffPosition ==
    [][(rep = "distance" /\ op' = "updateData") =>
        LET S == what'[1]
        IN /\ resolved' <=> "position" \in S
           /\ ("position" \in S =>
                 dataList'[1].position = Midpoints(viewAtoms, frame, atomPair))
           /\ ("position" \notin S => dataList' = dataList)
           /\ (S \subseteq {"color", "radius", "scale"} =>
                 /\ textData' = {} /\ textBuffer' = textBuffer
                 /\ Len(cylinderBuffer'[1].radius)
                    = Len(dataList[1].bondStore))
           /\ (S \subseteq {"labelSize", "labelColor"} =>
                 /\ cylinderData' = {} /\ cylinderBuffer' = cylinderBuffer
                 /\ textData' \subseteq {"size", "color"})
      ]_vars

\* a colour-only update after the structure moved: the data's positions are
\* those of the frame resolved before
C10_Witness ==
    /\ rep = "distance"
    /\ op = "updateData"
    /\ what = << {"color"} >>
    /\ ~resolved
    /\ dataList[1].position # << >>
    /\ dataList[1].position # Midpoints(viewAtoms, frame, atomPair)

----------------------------------------------------------------------------
(* Properties of ViewerControls *)

\* C6: distance( z ) sets the camera's depth coordinate to exactly z and
\* leaves the scene rotation and translation as they were, from any state;
\* zoom( delta ) is distance( currentZ * ( 1 - delta ) ), with the same frame.
C6_DistanceSetsOnlyDepth ==
    [][/\ (op' = "distance" => cameraZ' = callArg'[1])
       /\ (op' = "zoom" => cameraZ' = cameraZ * (1 - callArg'[1]))
       /\ (op' \in {"distance", "zoom"} =>
             /\ rotationQuaternion' = rotationQuaternion
             /\ rotationMatrix' = rotationMatrix
             /\ translation' = translation)
      ]_vars

\* distance has moved the camera in front of a scene that is turned and
\* shifted
C6_Witness ==
    /\ op = "distance"
    /\ cameraZ = MaxZ
    /\ rotationQuaternion # << 0, 0, 0, 2 >>
    /\ rotationMatrix # Identity3
    /\ translation # << 0, 0, 0 >>

\* C7: setOrientation( compose( translation, rotation, scale ) ) followed by
\* getOrientation() yields a matrix that decomposes to the same rotation,
\* translation and scale; getOrientation changes nothing of the controller
\* and requests no render.
C7_OrientationRoundTrip ==
    [][op' = "getOrientation" =>
        /\ UNCHANGED << rotationQuaternion, rotationMatrix, translation,
                        cameraZ, renderRequested >>
        /\ (op = "setOrientation" =>
              LET o == callArg[1]
                  d == Decompose(orientation'[1])
              IN /\ MatOfQuat(d.q) = MatOfQuat(o.q)
                 /\ d.p = o.t
                 /\ d.s = << o.s, o.s, o.s >>)
      ]_vars

----------------------------------------------------------------------------
(* Properties of HyperballStickImpostorBuffer *)

\* C5: the buffer is pickable if and only if it was constructed with a
\* picking colour: without one it has no picking channel and is not pickable;
\* with one it has both picking channels, as long as its colour channels and
\* filled at construction.  It is an impostor, and no operation changes that
\* or its being pickable.
C5_PickableIffPickingColor ==
    hbuf # << >> =>
        LET b == hbuf[1]
            a == hargs[1]
            names == DOMAIN b.attributes
        IN /\ b.impostor
           /\ b.pickable <=> a.pickingColor # << >>
           /\ (a.pickingColor = << >> =>
                 {"pickingColor", "pickingColor2"} \cap names = {})
           /\ (a.pickingColor # << >> =>
                 /\ {"pickingColor", "pickingColor2"} \subseteq names
                 /\ Len(b.attributes["pickingColor"])
                    = Len(b.attributes["color"])
                 /\ Len(b.attributes["pickingColor2"])
                    = Len(b.attributes["color2"])
                 /\ (op = "new" =>
                       /\ b.attributes["pickingColor"] = a.pickingColor[1]
                       /\ b.attributes["pickingColor2"] = a.pickingColor[1]))

\* a buffer of the largest size built with picking colours, its colours
\* rewritten since
C5_Witness ==
    /\ hbuf # << >>
    /\ hargs[1].pickingColor # << >>
    /\ hbuf[1].count = MaxCount
    /\ op = "setAttributes"
    /\ hbuf[1].pickable
    /\ hbuf[1].attributes["color"] # uniformArray(3 * MaxCount, 4)

----------------------------------------------------------------------------
(* Properties of RocketRepresentation.updateData *)

\* C11: updateData with color and/or radius in the change-set and no position
\* writes the recomputed lane of the k-th recorded helix bundle at the offset
\* createData used for it (the segments of the bundles before it), in build
\* order; it never writes the begin, end or pickingColor arrays; it writes the
\* colour lane only if color is in the change-set and the size lane only if
\* radius or scale is.
C11_LanesRewrittenAtBuildOffsets ==
    [][(/\ rep = "rocket"
        /\ op' = "updateData"
        /\ "position" \notin what'[1]
        /\ ("color" \in what'[1] \/ "radius" \in what'[1])) =>
        LET S == what'[1]
            old == rocketData[1]
            new == rocketData'[1]
            at == EligibleAt(polymers)
        IN /\ new.helixbundleList = at
           /\ \A lane \in {"begin", "end", "pickingColor"} :
                new.axisData[lane] = old.axisData[lane]
           /\ \A c \in {"position", "position1", "position2", "pickingColor",
                        "pickingColor2"} :
                new.bufferList[c] = old.bufferList[c]
           /\ IF "color" \in S
              THEN \A k \in 1..Len(at) :
                     \A i \in 1..polymers[at[k]].segs, c \in 1..3 :
                       new.axisData.color[
                           3 * (SegsBefore(polymers, at, k - 1) + i - 1) + c]
                       = getAxis(polymers, at[k], colorScheme, radius,
                                 scale).color[3 * (i - 1) + c]
              ELSE new.axisData.color = old.axisData.color
           /\ IF "radius" \in S \/ "scale" \in S
              THEN \A k \in 1..Len(at) :
                     \A i \in 1..polymers[at[k]].segs :
                       new.axisData.size[SegsBefore(polymers, at, k - 1) + i]
                       = getAxis(polymers, at[k], colorScheme, radius,
                                 scale).size[i]
              ELSE new.axisData.size = old.axisData.size
      ]_vars

\* two bundles of two and one segments, built with the default parameters
\* and updated with { color } after colour scheme and radius changed: the
\* second bundle's colours are at offset 2, the size lane is stale
C11_Witness ==
    /\ rep = "rocket"
    /\ op = "updateData"
    /\ what = << {"color"} >>
    /\ Len(polymers) = 2
    /\ \A k \in 1..2 : RocketEligible(polymers[k])
    /\ polymers[1].segs = 2 /\ polymers[2].segs = 1
    /\ colorScheme = 2 /\ radius = 2
    /\ rocketData[1].axisData.color[7]
       = getAxis(polymers, 2, colorScheme, radius, scale).color[1]
    /\ rocketData[1].axisData.size[3]
       # getAxis(polymers, 2, colorScheme, radius, scale).size[1]

----------------------------------------------------------------------------
(* Properties of updateData called without a change-set *)

\* C12: DistanceRepresentation.updateData called without a change-set is a
\* full update: it resolves the atom pairs again, hands the position
\* channels to the text and the cylinder buffer, and returns normally.
C12_UndefinedIsFullUpdate ==
    [][(rep = "distance" /\ what' = << Undefined >>) =>
         /\ op' = "updateData"
         /\ resolved'
         /\ "position" \in textData'
         /\ PositionChannels \subseteq cylinderData'
      ]_vars

----------------------------------------------------------------------------
(* Properties of RocketRepresentation.updateData under a scale change *)

\* C13: updateData treats a scale change like a radius change: for a
\* change-set holding scale and no position it computes the axes again,
\* writes their sizes into the size lane at the bundles' offsets and hands
\* that lane to the cylinder buffer as its radius channel.
C13_ScaleTreatedLikeRadius ==
    [][(/\ rep = "rocket"
        /\ op' = "updateData"
        /\ "scale" \in what'[1]
        /\ "position" \notin what'[1]) =>
        LET new == rocketData'[1]
            at == EligibleAt(polymers)
        IN /\ "radius" \in cylinderData'
           /\ \A k \in 1..Len(at) :
                \A i \in 1..polymers[at[k]].segs :
                  new.axisData.size[SegsBefore(polymers, at, k - 1) + i]
                  = getAxis(polymers, at[k], colorScheme, radius,
                            scale).size[i]
           /\ new.bufferList.radius = new.axisData.size
      ]_vars

----------------------------------------------------------------------------
(* Properties of DistanceRepresentation.setParameters and .setVisibility *)

\* C14: setParameters puts labelColor in the change-set it hands to the base
\* setParameters whenever params supplies a labelColor, whatever the colour,
\* black included, and labelSize whenever params supplies a labelSize; it
\* puts neither in when the key is absent, and it always passes rebuild false.
C14_SuppliedLabelKeysInChangeSet ==
    [][op' = "setParameters" =>
        LET p == lastParams'[1]
            b == baseCall'[1]
        IN /\ ("labelColor" \in b.what <=> "labelColor" \in DOMAIN p)
           /\ ("labelSize" \in b.what <=> "labelSize" \in DOMAIN p)
           /\ b.rebuild = FALSE
      ]_vars

\* C15: after a setVisibility( v ) or a setParameters( { labelVisible: b } )
\* call on a built representation the text buffer is shown exactly when
\* labelVisible and visible both hold and the cylinder buffer exactly when
\* visible holds; setVisibility stores v, leaves labelVisible alone and
\* issues one render request when noRenderRequest is falsy and none when it
\* is truthy; setParameters stores b, leaves visible alone and issues one.
C15_TextShownWhenLabelVisibleAndVisible ==
    [][(/\ textBuffer # << >>
        /\ \/ op' = "setVisibility"
           \/ /\ op' = "setParameters"
              /\ DOMAIN lastParams'[1] = {"labelVisible"}) =>
        /\ visibility'.text = (stored'.labelVisible /\ stored'.visible)
        /\ visibility'.cylinder = stored'.visible
        /\ (op' = "setVisibility" =>
              /\ stored'.visible = lastParams'[1].value
              /\ stored'.labelVisible = stored.labelVisible
              /\ requests' = IF lastParams'[1].noRenderRequest THEN 0 ELSE 1)
        /\ (op' = "setParameters" =>
              /\ stored'.labelVisible = lastParams'[1].labelVisible
              /\ stored'.visible = stored.visible
              /\ requests' = 1)
      ]_vars

\* a representation with hidden labels shown again without a render request:
\* the cylinders are shown, the text is not
C15_Witness ==
    /\ rep = "parameters"
    /\ op = "setVisibility"
    /\ lastParams = << [value |-> TRUE, noRenderRequest |-> TRUE] >>
    /\ textBuffer # << >>
    /\ ~stored.labelVisible /\ stored.visible
    /\ visibility = [text |-> FALSE, cylinder |-> TRUE]
    /\ requests = 0

====
